---- MODULE Spec2Model ----
(***************************************************************************)
(* A model of src/src/jsts/operation/buffer/BufferOp.js: the BufferOp      *)
(* constructor and getResultGeometry with everything it calls.             *)
(*                                                                         *)
(* The file is JavaScript without a "use strict" directive, and the model  *)
(* follows JavaScript's rules for it:                                      *)
(*  - an identifier written without "this." that is no parameter or local  *)
(*    variable (bufParams, argGeom, distance, resultGeometry,              *)
(*    saveException, PrecisionModel, bufferFixedPrecision, ...) is looked  *)
(*    up in the global scope: reading it while undeclared raises a         *)
(*    ReferenceError, assigning to it creates or updates the global;       *)
(*  - a property assigned twice keeps the last function assigned, so after *)
(*    the file has loaded prototype.bufferReducedPrecision is the          *)
(*    one-argument function of lines 258-266; the loop of lines 234-250    *)
(*    is replaced before anything can call it;                             *)
(*  - a call runs to completion: one action is one call by the caller.     *)
(* What the page that loads the file declares as globals is an input: the  *)
(* variable scope starts in any of the host scopes of HostScopes.          *)
(***************************************************************************)
EXTENDS Integers, Sequences, FiniteSets, TLC

\* The number of BufferOp objects the caller constructs.
MaxOps == 1

\* BufferOp.MAX_PRECISION_DIGITS
MAX_PRECISION_DIGITS == 12

(***************************************************************************)
(* Numbers.  A scale factor is the real number 10^p / x (x > 0), Infinity  *)
(* or NaN; Math.log and Math.pow are taken as exact.                       *)
(***************************************************************************)
NoScale == [kind |-> "none", p |-> 0, x |-> 1]
FiniteScale(p, x) == [kind |-> "finite", p |-> p, x |-> x]
InfiniteScale == [kind |-> "infinite", p |-> 0, x |-> 1]
NaNScale == [kind |-> "nan", p |-> 0, x |-> 1]

RECURSIVE Pow10(_)
Pow10(n) == IF n = 0 THEN 1 ELSE 10 * Pow10(n - 1)

\* The largest envelope size plus twice the largest distance is below 10^SizeDigits.
SizeDigits == 6

\* 10^a * x2 <= x1 for a >= 0 and x1, x2 > 0, without computing a number
\* above 10^SizeDigits
TimesPow10Leq(a, x2, x1) == IF a > SizeDigits THEN FALSE ELSE Pow10(a) <= x1 \div x2

\* x2 <= 10^a * x1 for a >= 0 and x1, x2 > 0
LeqTimesPow10(x2, a, x1) ==
  IF a > SizeDigits THEN TRUE ELSE (x2 + x1 - 1) \div x1 <= Pow10(a)

\* s1 <= s2 as JavaScript compares numbers: false when either is NaN
ScaleLeq(s1, s2) ==
  CASE s1.kind = "nan" \/ s2.kind = "nan" -> FALSE
    [] s1.kind = "none" \/ s2.kind = "none" -> FALSE
    [] s2.kind = "infinite" -> TRUE
    [] s1.kind = "infinite" -> FALSE
    [] OTHER ->
         IF s1.p >= s2.p
           THEN TimesPow10Leq(s1.p - s2.p, s2.x, s1.x)
           ELSE LeqTimesPow10(s2.x, s2.p - s1.p, s1.x)

ScaleLess(s1, s2) ==
  /\ s1.kind \notin {"nan", "none"}
  /\ s2.kind \notin {"nan", "none"}
  /\ ~ScaleLeq(s2, s1)

(***************************************************************************)
(* The collaborators' values (jsts.geom, BufferParameters), as far as      *)
(* BufferOp.js reads them.                                                 *)
(***************************************************************************)
NoPM == [type |-> "none", scale |-> NoScale]
FloatingPM == [type |-> "FLOATING", scale |-> NoScale]
\* new jsts.geom.PrecisionModel(scale)
FixedPM(scale) == [type |-> "FIXED", scale |-> scale]

NoGeom == [id |-> "none", pm |-> NoPM, envHeight |-> 0, envWidth |-> 0]
\* a line in floating precision, envelope 10 x 4
gFloat == [id |-> "gFloat", pm |-> FloatingPM, envHeight |-> 10, envWidth |-> 4]
\* a point on a grid of scale 1000
gFixed == [id |-> "gFixed", pm |-> FixedPM(FiniteScale(3, 1)), envHeight |-> 0, envWidth |-> 0]
Geoms == {gFloat, gFixed}

Distances == {-1, 45}

\* BufferParameters objects: the caller's, and the one new BufferParameters() makes
CallerParams == {"params1"}
DefaultParams == "default"
NoParams == "none"

(***************************************************************************)
(* JavaScript values and errors.                                           *)
(***************************************************************************)
\* the value of a global name, or that the name is not declared
Undeclared(default) == [declared |-> FALSE, value |-> default]
Declared(v) == [declared |-> TRUE, value |-> v]

NoError == [class |-> "none", name |-> "none", attempt |-> 0]
\* reading the undeclared identifier name
ReferenceError(name) == [class |-> "ReferenceError", name |-> name, attempt |-> 0]
\* the error the builder raised in the attempt-th builder call of the request
BuilderError(class, attempt) == [class |-> class, name |-> "none", attempt |-> attempt]

\* null, and the geometry the builder built in the attempt-th builder call
NullGeometry ==
  [null |-> TRUE, geom |-> "none", distance |-> 0, params |-> NoParams,
   workingPM |-> NoPM, attempt |-> 0, polygonal |-> FALSE]
\* what BufferBuilder.buffer returns: a polygonal geometry, possibly empty
BuiltGeometry(b, g, d, attempt) ==
  [null |-> FALSE, geom |-> g.id, distance |-> d, params |-> b.params,
   workingPM |-> b.workingPM, attempt |-> attempt, polygonal |-> TRUE]
\* the input geometry g itself as a value: a geometry of any kind
InputGeometry(g) ==
  [null |-> FALSE, geom |-> g.id, distance |-> 0, params |-> NoParams,
   workingPM |-> NoPM, attempt |-> 0, polygonal |-> FALSE]

(***************************************************************************)
(* The global scope.  bufParams, argGeom and distance are names the file   *)
(* only reads, so they have a value only when the host page declares them  *)
(* (HostData: it declares none of them, or all three);                     *)
(* resultGeometry and saveException are names it assigns.  aliases says    *)
(* whether the host declares the collaborators' classes and BufferOp's own *)
(* members under their short names (BufferParameters, PrecisionModel,      *)
(* ScaledNoder, MCIndexSnapRounder, BufferOp, MAX_PRECISION_DIGITS,        *)
(* precisionScaleFactor, bufferFixedPrecision, bufferReducedPrecision),    *)
(* each bound to the object the namespace holds under that name.           *)
(***************************************************************************)
HostData ==
  {[bufParams |-> Undeclared(NoParams), argGeom |-> Undeclared(NoGeom),
    distance |-> Undeclared(0)]}
  \cup {[bufParams |-> Declared(DefaultParams), argGeom |-> Declared(g),
         distance |-> Declared(d)] : g \in Geoms, d \in Distances}

HostScopes ==
  {[bufParams |-> h.bufParams, argGeom |-> h.argGeom, distance |-> h.distance,
    resultGeometry |-> Undeclared(NullGeometry), saveException |-> Undeclared(NoError),
    aliases |-> a] : h \in HostData, a \in BOOLEAN}

(***************************************************************************)
(* jsts.operation.buffer.BufferBuilder, which is not part of the file.     *)
(* Whether a call of buffer() succeeds is decided by plan, the behaviour   *)
(* of the builder for the request at hand: plan.native is the outcome      *)
(* with no working precision model set, and with a fixed working model the *)
(* call succeeds on every grid no finer than plan.okUpTo and ends as       *)
(* plan.fine says on the finer ones.                                       *)
(***************************************************************************)
Outcomes == {"ok", "RobustnessFailure", "InvalidArgument"}
ThresholdExps == {3}
Plans ==
  [native : Outcomes,
   fine : {"RobustnessFailure", "InvalidArgument"},
   okUpTo : {NoScale} \cup {FiniteScale(t, 1) : t \in ThresholdExps}]

\* new jsts.operation.buffer.BufferBuilder(bufParams)
NewBufferBuilder(bufParams) == [params |-> bufParams, workingPM |-> NoPM, noder |-> NoScale]
setWorkingPrecisionModel(b, pm) == [b EXCEPT !.workingPM = pm]
\* new ScaledNoder(new MCIndexSnapRounder(new PrecisionModel(1.0)), scale)
setNoder(b, scale) == [b EXCEPT !.noder = scale]

BuilderOutcome(b, plan) ==
  IF b.workingPM.type = "none"
    THEN plan.native
    ELSE IF plan.okUpTo.kind = "finite" /\ ScaleLeq(b.workingPM.scale, plan.okUpTo)
           THEN "ok"
           ELSE plan.fine

(***************************************************************************)
(* Running a call.  m is what a call can change: the global scope, the     *)
(* BufferOp object the method was called on, and the record of the builder *)
(* calls made so far in the request (via: the function that made the call; *)
(* digits: the precisionDigits of the bufferReducedPrecision call around   *)
(* it, -1 when there is none).  A function's result is m afterwards, the   *)
(* error it raised (NoError when it returned) and the value returned.      *)
(***************************************************************************)
Return(m, v) == [m |-> m, exc |-> NoError, ret |-> v]
Throw(m, e) == [m |-> m, exc |-> e, ret |-> NullGeometry]
Raised(c) == c.exc.class # "none"

Undefined == [defined |-> FALSE, value |-> 0]
Number(n) == [defined |-> TRUE, value |-> n]

\* bufBuilder.buffer(g, d), called by the function via
buffer(m, b, g, d, via, digits, plan) ==
  LET n == Len(m.attempts) + 1
      outcome == BuilderOutcome(b, plan)
      m1 == [m EXCEPT !.attempts = Append(@,
               [via |-> via, digits |-> digits, geom |-> g.id, distance |-> d,
                params |-> b.params, workingPM |-> b.workingPM, noder |-> b.noder,
                outcome |-> outcome])]
  IN IF outcome = "ok"
       THEN Return(m1, BuiltGeometry(b, g, d, n))
       ELSE Throw(m1, BuilderError(outcome, n))

Max(a, b) == IF a >= b THEN a ELSE b

\* precisionScaleFactor with minUnitLog10 = bufEnvLog10 + maxPrecisionDigits
precisionScaleFactor_PlusDigits(g, distance, maxPrecisionDigits) ==
  LET envSize == Max(g.envHeight, g.envWidth)
      expandByDistance == IF distance > 0 THEN distance ELSE 0
      bufEnvSize == envSize + 2 * expandByDistance
  IN IF ~maxPrecisionDigits.defined THEN NaNScale
     ELSE IF bufEnvSize = 0 THEN InfiniteScale
     ELSE FiniteScale(-maxPrecisionDigits.value - 1, bufEnvSize)

\* BufferOp.precisionScaleFactor; maxPrecisionDigits is a number or undefined
precisionScaleFactor(g, distance, maxPrecisionDigits) ==
  LET envSize == Max(g.envHeight, g.envWidth)
      expandByDistance == IF distance > 0 THEN distance ELSE 0
      bufEnvSize == envSize + 2 * expandByDistance
      \* bufEnvLog10 = log10(bufEnvSize) + 1, which is -Infinity for a size of 0;
      \* minUnitLog10 = bufEnvLog10 - maxPrecisionDigits, NaN for undefined digits;
      \* scaleFactor = 10^(-minUnitLog10) = 10^(maxPrecisionDigits - 1) / bufEnvSize
      scaleFactor ==
        IF ~maxPrecisionDigits.defined THEN NaNScale
        ELSE IF bufEnvSize = 0 THEN InfiniteScale
        ELSE FiniteScale(maxPrecisionDigits.value - 1, bufEnvSize)
  IN scaleFactor

\* bufferFixedPrecision handing the noder the scale of the snap rounder's
\* own model, new PrecisionModel(1.0), instead of fixedPM.getScale()
bufferFixedPrecision_UnitNoder(m, fixedPM, digits, plan) ==
  IF ~m.scope.aliases THEN Throw(m, ReferenceError("ScaledNoder"))
  ELSE IF ~m.scope.bufParams.declared THEN Throw(m, ReferenceError("bufParams"))
  ELSE IF ~m.scope.argGeom.declared THEN Throw(m, ReferenceError("argGeom"))
  ELSE IF ~m.scope.distance.declared THEN Throw(m, ReferenceError("distance"))
  ELSE
    LET noder == FiniteScale(0, 1)
        bufBuilder == setNoder(setWorkingPrecisionModel(
                        NewBufferBuilder(m.scope.bufParams.value), fixedPM), noder)
        c == buffer(m, bufBuilder, m.scope.argGeom.value, m.scope.distance.value,
                    "bufferFixedPrecision", digits, plan)
    IN IF Raised(c) THEN c
       ELSE Return([c.m EXCEPT !.scope.resultGeometry = Declared(c.ret)], NullGeometry)

\* BufferOp.prototype.bufferFixedPrecision(fixedPM)
bufferFixedPrecision(m, fixedPM, digits, plan) ==
  IF ~m.scope.aliases THEN Throw(m, ReferenceError("ScaledNoder"))
  ELSE IF ~m.scope.bufParams.declared THEN Throw(m, ReferenceError("bufParams"))
  ELSE IF ~m.scope.argGeom.declared THEN Throw(m, ReferenceError("argGeom"))
  ELSE IF ~m.scope.distance.declared THEN Throw(m, ReferenceError("distance"))
  ELSE
    LET noder == fixedPM.scale
        bufBuilder == setNoder(setWorkingPrecisionModel(
                        NewBufferBuilder(m.scope.bufParams.value), fixedPM), noder)
        c == buffer(m, bufBuilder, m.scope.argGeom.value, m.scope.distance.value,
                    "bufferFixedPrecision", digits, plan)
    IN IF Raised(c) THEN c
       ELSE Return([c.m EXCEPT !.scope.resultGeometry = Declared(c.ret)], NullGeometry)

\* BufferOp.prototype.bufferReducedPrecision(precisionDigits), the function of
\* lines 258-266, which is the one the prototype holds
bufferReducedPrecision(m, precisionDigits, plan) ==
  IF ~m.scope.aliases THEN Throw(m, ReferenceError("precisionScaleFactor"))
  ELSE IF ~m.scope.argGeom.declared THEN Throw(m, ReferenceError("argGeom"))
  ELSE IF ~m.scope.distance.declared THEN Throw(m, ReferenceError("distance"))
  ELSE
    LET sizeBasedScaleFactor ==
          precisionScaleFactor(m.scope.argGeom.value, m.scope.distance.value, precisionDigits)
        fixedPM == FixedPM(sizeBasedScaleFactor)
    IN bufferFixedPrecision(m, fixedPM,
         IF precisionDigits.defined THEN precisionDigits.value ELSE -1, plan)

\* bufferOriginalPrecision with the builder call wrapped in
\* try { ... } catch (ex) { saveException = ex; }
bufferOriginalPrecision_CatchAll(m, plan) ==
  IF ~m.scope.bufParams.declared THEN Throw(m, ReferenceError("bufParams"))
  ELSE IF ~m.scope.argGeom.declared THEN Throw(m, ReferenceError("argGeom"))
  ELSE IF ~m.scope.distance.declared THEN Throw(m, ReferenceError("distance"))
  ELSE
    LET bufBuilder == NewBufferBuilder(m.scope.bufParams.value)
        c == buffer(m, bufBuilder, m.scope.argGeom.value, m.scope.distance.value,
                    "bufferOriginalPrecision", -1, plan)
    IN IF Raised(c)
         THEN Return([c.m EXCEPT !.scope.saveException = Declared(c.exc)], NullGeometry)
         ELSE Return([c.m EXCEPT !.scope.resultGeometry = Declared(c.ret)], NullGeometry)

\* BufferOp.prototype.bufferOriginalPrecision()
bufferOriginalPrecision(m, plan) ==
  IF ~m.scope.bufParams.declared THEN Throw(m, ReferenceError("bufParams"))
  ELSE IF ~m.scope.argGeom.declared THEN Throw(m, ReferenceError("argGeom"))
  ELSE IF ~m.scope.distance.declared THEN Throw(m, ReferenceError("distance"))
  ELSE
    LET bufBuilder == NewBufferBuilder(m.scope.bufParams.value)
        c == buffer(m, bufBuilder, m.scope.argGeom.value, m.scope.distance.value,
                    "bufferOriginalPrecision", -1, plan)
    IN IF Raised(c) THEN c
       ELSE Return([c.m EXCEPT !.scope.resultGeometry = Declared(c.ret)], NullGeometry)

\* precisionDispatch without "if (resultGeometry != null) return;"
precisionDispatch_NoEarlyReturn(m, plan) ==
  IF ~m.scope.argGeom.declared THEN Throw(m, ReferenceError("argGeom"))
  ELSE
    LET argPM == m.scope.argGeom.value.pm
    IN IF ~m.scope.aliases THEN Throw(m, ReferenceError("PrecisionModel"))
       ELSE IF argPM.type = "FIXED"
         THEN bufferFixedPrecision(m, argPM, -1, plan)
         ELSE bufferReducedPrecision(m, Undefined, plan)

\* BufferOp.prototype.computeGeometry(), from line 224 on
precisionDispatch(m, plan) ==
  IF ~m.scope.resultGeometry.declared THEN Throw(m, ReferenceError("resultGeometry"))
  ELSE IF ~m.scope.resultGeometry.value.null THEN Return(m, NullGeometry)
  ELSE IF ~m.scope.argGeom.declared THEN Throw(m, ReferenceError("argGeom"))
  ELSE
    LET argPM == m.scope.argGeom.value.pm
    IN IF ~m.scope.aliases THEN Throw(m, ReferenceError("PrecisionModel"))
       ELSE IF argPM.type = "FIXED"
         THEN bufferFixedPrecision(m, argPM, -1, plan)
         ELSE bufferReducedPrecision(m, Undefined, plan)

\* computeGeometry without "if (resultGeometry != null) return;"
computeGeometry_AlwaysDispatches(m, plan) ==
  LET c == bufferOriginalPrecision(m, plan)
  IN IF Raised(c) THEN c ELSE precisionDispatch_NoEarlyReturn(c.m, plan)

\* BufferOp.prototype.computeGeometry()
computeGeometry(m, plan) ==
  LET c == bufferOriginalPrecision(m, plan)
  IN IF Raised(c) THEN c ELSE precisionDispatch(c.m, plan)

\* getResultGeometry ending in "return this.resultGeometry;"
getResultGeometry_ReturnsField(m, distance, plan) ==
  LET m1 == [m EXCEPT !.this.distance = Number(distance)]
      c == computeGeometry(m1, plan)
  IN IF Raised(c) THEN c ELSE Return(c.m, c.m.this.resultGeometry)

\* getResultGeometry ending in "return this.argGeom;"
getResultGeometry_ReturnsInput(m, distance, plan) ==
  LET m1 == [m EXCEPT !.this.distance = Number(distance)]
      c == computeGeometry(m1, plan)
  IN IF Raised(c) THEN c ELSE Return(c.m, InputGeometry(c.m.this.argGeom))

\* BufferOp.prototype.getResultGeometry(distance)
getResultGeometry(m, distance, plan) ==
  LET m1 == [m EXCEPT !.this.distance = Number(distance)]
      c == computeGeometry(m1, plan)
  IN IF Raised(c) THEN c
     ELSE IF ~c.m.scope.resultGeometry.declared
       THEN Throw(c.m, ReferenceError("resultGeometry"))
       ELSE Return(c.m, c.m.scope.resultGeometry.value)

\* the constructor BufferOp(g, bufParams); bufParams is NoParams when left out
BufferOp(scope, g, bufParams) ==
  LET this == [argGeom |-> g, bufParams |-> bufParams, distance |-> Undefined,
               resultGeometry |-> NullGeometry]
  IN IF bufParams # NoParams THEN [this |-> this, exc |-> NoError]
     ELSE IF ~scope.aliases
       THEN [this |-> this, exc |-> ReferenceError("BufferParameters")]
       ELSE [this |-> [this EXCEPT !.bufParams = DefaultParams], exc |-> NoError]

(***************************************************************************)
(* The static BufferOp.bufferOp.  The file assigns the property four times *)
(* (lines 109, 129, 150, 175) and the last assignment is the function the  *)
(* property holds: JavaScript has no overloading, so every call, with two, *)
(* three or four arguments, runs the function of lines 175-182 with the    *)
(* arguments bound by position.                                            *)
(***************************************************************************)
\* an argument that was left out, a number, a BufferParameters object
ArgUndefined == [defined |-> FALSE, num |-> 0, params |-> NoParams]
ArgNumber(n) == [defined |-> TRUE, num |-> n, params |-> NoParams]
ArgParams(p) == [defined |-> TRUE, num |-> 0, params |-> p]

\* calling the property name of an object that has no such function
TypeError(name) == [class |-> "TypeError", name |-> name, attempt |-> 0]

\* the functions the file puts on BufferOp.prototype
PrototypeMethods ==
  {"getResultGeometry", "computeGeometry", "bufferReducedPrecision",
   "bufferOriginalPrecision", "bufferFixedPrecision"}

\* jsts.operation.buffer.BufferOp.bufferOp(g, distance, quadrantSegments, endCapStyle)
bufferOp(scope, g, distance, quadrantSegments, endCapStyle, plan) ==
  LET m0 == [scope |-> scope,
             this |-> [argGeom |-> g, bufParams |-> NoParams, distance |-> Undefined,
                       resultGeometry |-> NullGeometry],
             attempts |-> <<>>]
  IN IF ~scope.aliases THEN Throw(m0, ReferenceError("BufferOp"))
     ELSE
       LET bufOp == BufferOp(scope, g, NoParams)
           m == [m0 EXCEPT !.this = bufOp.this]
       IN IF bufOp.exc # NoError THEN Throw(m, bufOp.exc)
          ELSE IF "setQuadrantSegments" \notin PrototypeMethods
            THEN Throw(m, TypeError("setQuadrantSegments"))
          ELSE IF "setEndCapStyle" \notin PrototypeMethods
            THEN Throw(m, TypeError("setEndCapStyle"))
          ELSE getResultGeometry(m, distance, plan)

(***************************************************************************)
(* The state: the global scope, the BufferOp objects the caller holds, and *)
(* the last call the caller made with how it ended.                        *)
(***************************************************************************)
VARIABLES scope, ops, last

vars == <<scope, ops, last>>

NoPlan == [native |-> "ok", fine |-> "RobustnessFailure", okUpTo |-> NoScale]

\* pm and digits are the argument of a call of bufferFixedPrecision and of
\* bufferReducedPrecision; before is the global resultGeometry as a call of
\* getResultGeometry found it; scale is the value of a call of
\* precisionScaleFactor, prev the digits and the value of the call before it
\* when that was made for the same geometry and distance
NoPrev == [digits |-> -1, scale |-> NoScale]

NoCall ==
  [call |-> "none", geom |-> NoGeom, params |-> NoParams, distance |-> 0, plan |-> NoPlan,
   pm |-> NoPM, digits |-> -1, scale |-> NoScale, prev |-> NoPrev, form |-> "none",
   before |-> Undeclared(NullGeometry), attempts |-> <<>>, exc |-> NoError,
   ret |-> NullGeometry]

Init ==
  /\ scope \in HostScopes
  /\ ops = <<>>
  /\ last = NoCall

\* new jsts.operation.buffer.BufferOp(g) and new jsts.operation.buffer.BufferOp(g, p)
New(g, p) ==
  /\ Len(ops) < MaxOps
  /\ LET r == BufferOp(scope, g, p)
     IN /\ ops' = IF r.exc = NoError THEN Append(ops, r.this) ELSE ops
        /\ last' = [NoCall EXCEPT !.call = "new", !.geom = g, !.params = p,
                                  !.before = scope.resultGeometry, !.exc = r.exc]
  /\ UNCHANGED scope

\* ops[i].getResultGeometry(d), with the builder behaving as plan says
Request(i, d, plan) ==
  LET c == getResultGeometry([scope |-> scope, this |-> ops[i], attempts |-> <<>>], d, plan)
  IN /\ scope' = c.m.scope
     /\ ops' = [ops EXCEPT ![i] = c.m.this]
     /\ last' = [call |-> "getResultGeometry", geom |-> ops[i].argGeom,
                 params |-> ops[i].bufParams, distance |-> d, plan |-> plan,
                 pm |-> NoPM, digits |-> -1, scale |-> NoScale, prev |-> NoPrev, form |-> "none",
                 before |-> scope.resultGeometry, attempts |-> c.m.attempts,
                 exc |-> c.exc, ret |-> c.ret]

(***************************************************************************)
(* The functions computeGeometry is meant to call are properties of the    *)
(* prototype like getResultGeometry, and JavaScript lets any holder of a   *)
(* BufferOp call them.  The builder's behaviour without a working          *)
(* precision model plays no part in these calls: the builder succeeds on   *)
(* the grids no finer than plan.okUpTo and raises a robustness failure on  *)
(* the others.                                                             *)
(***************************************************************************)
GridPlans == {plan \in Plans : plan.native = "ok" /\ plan.fine = "RobustnessFailure"}

\* the precision models a caller passes: those of the geometries, and scale 1
CallerPMs == {g.pm : g \in {h \in Geoms : h.pm.type = "FIXED"}} \cup {FixedPM(FiniteScale(0, 1))}

\* ops[i].bufferFixedPrecision(fixedPM)
CallFixedPrecision(i, fixedPM, plan) ==
  LET c == bufferFixedPrecision([scope |-> scope, this |-> ops[i], attempts |-> <<>>],
                                fixedPM, -1, plan)
  IN /\ scope' = c.m.scope
     /\ ops' = [ops EXCEPT ![i] = c.m.this]
     /\ last' = [call |-> "bufferFixedPrecision", geom |-> ops[i].argGeom,
                 params |-> ops[i].bufParams, distance |-> ops[i].distance.value,
                 plan |-> plan, pm |-> fixedPM, digits |-> -1,
                 scale |-> NoScale, prev |-> NoPrev, form |-> "none",
                 before |-> NoCall.before, attempts |-> c.m.attempts,
                 exc |-> c.exc, ret |-> c.ret]

\* ops[i].bufferReducedPrecision(precisionDigits)
CallReducedPrecision(i, precisionDigits, plan) ==
  LET c == bufferReducedPrecision([scope |-> scope, this |-> ops[i], attempts |-> <<>>],
                                  Number(precisionDigits), plan)
  IN /\ scope' = c.m.scope
     /\ ops' = [ops EXCEPT ![i] = c.m.this]
     /\ last' = [call |-> "bufferReducedPrecision", geom |-> ops[i].argGeom,
                 params |-> ops[i].bufParams, distance |-> ops[i].distance.value,
                 plan |-> plan, pm |-> NoPM, digits |-> precisionDigits,
                 scale |-> NoScale, prev |-> NoPrev, form |-> "none",
                 before |-> NoCall.before, attempts |-> c.m.attempts,
                 exc |-> c.exc, ret |-> c.ret]

Next ==
  \/ \E g \in Geoms, p \in CallerParams \cup {NoParams} : New(g, p)
  \/ \E i \in 1..Len(ops), d \in Distances, plan \in Plans : Request(i, d, plan)

Spec == Init /\ [][Next]_vars

\* the calls of the functions behind getResultGeometry, on objects made by New
NextMethods ==
  \/ \E g \in Geoms, p \in CallerParams \cup {NoParams} : New(g, p)
  \/ \E i \in 1..Len(ops), pm \in CallerPMs, plan \in GridPlans :
        CallFixedPrecision(i, pm, plan)
  \/ \E i \in 1..Len(ops), d \in 0..MAX_PRECISION_DIGITS, plan \in GridPlans :
        CallReducedPrecision(i, d, plan)

SpecMethods == Init /\ [][NextMethods]_vars

(***************************************************************************)
(* The documented forms of the static bufferOp, by the arguments after g:  *)
(* the distance alone; the distance and a BufferParameters object; the     *)
(* distance and quadrantSegments; the distance, quadrantSegments and       *)
(* endCapStyle.                                                            *)
(***************************************************************************)
Forms == {"distance", "params", "quadrantSegments", "endCapStyle"}
QuadrantSegmentsArg == 4
EndCapStyleArg == 2

\* the third and the fourth argument of a call of the given form
ThirdArg(form, p) ==
  IF form = "distance" THEN ArgUndefined
  ELSE IF form = "params" THEN ArgParams(p)
  ELSE ArgNumber(QuadrantSegmentsArg)
FourthArg(form) ==
  IF form = "endCapStyle" THEN ArgNumber(EndCapStyleArg) ELSE ArgUndefined

\* jsts.operation.buffer.BufferOp.bufferOp(g, d, ...) in the given form
CallBufferOp(g, d, form, p, plan) ==
  LET c == bufferOp(scope, g, d, ThirdArg(form, p), FourthArg(form), plan)
  IN /\ scope' = c.m.scope
     /\ last' = [NoCall EXCEPT
                   !.call = "bufferOp", !.form = form, !.geom = g, !.distance = d,
                   !.params = IF form = "params" THEN p ELSE NoParams,
                   !.before = scope.resultGeometry,
                   !.attempts = c.m.attempts, !.exc = c.exc, !.ret = c.ret]
     /\ UNCHANGED ops

NextStatic ==
  \/ \E g \in Geoms, p \in CallerParams \cup {NoParams} : New(g, p)
  \/ \E i \in 1..Len(ops), d \in Distances, plan \in Plans : Request(i, d, plan)
  \/ \E g \in Geoms, d \in Distances, form \in Forms, p \in CallerParams, plan \in Plans :
       CallBufferOp(g, d, form, p, plan)

SpecStatic == Init /\ [][NextStatic]_vars

(***************************************************************************)
(* BufferOp.precisionScaleFactor is a function of its three arguments and  *)
(* reads no global name; it is called here for more geometries and         *)
(* distances than the requests use, in a host that declares nothing.       *)
(***************************************************************************)
\* a square of side 1 and one of side 250, in floating precision
gUnit == [id |-> "gUnit", pm |-> FloatingPM, envHeight |-> 1, envWidth |-> 1]
gBig == [id |-> "gBig", pm |-> FloatingPM, envHeight |-> 250, envWidth |-> 250]
ScaleGeoms == Geoms \cup {gUnit, gBig}
ScaleDistances == Distances \cup {0}

PlainHost ==
  [bufParams |-> Undeclared(NoParams), argGeom |-> Undeclared(NoGeom),
   distance |-> Undeclared(0), resultGeometry |-> Undeclared(NullGeometry),
   saveException |-> Undeclared(NoError), aliases |-> FALSE]

InitScale ==
  /\ scope = PlainHost
  /\ ops = <<>>
  /\ last = NoCall

\* jsts.operation.buffer.BufferOp.precisionScaleFactor(g, d, digits)
CallScaleFactor(g, d, digits) ==
  /\ last' = [NoCall EXCEPT
                !.call = "precisionScaleFactor", !.geom = g, !.distance = d,
                !.digits = digits,
                !.scale = precisionScaleFactor(g, d, Number(digits)),
                !.prev = IF last.call = "precisionScaleFactor" /\ last.geom = g
                            /\ last.distance = d
                           THEN [digits |-> last.digits, scale |-> last.scale]
                           ELSE NoPrev]
  /\ UNCHANGED <<scope, ops>>

NextScale ==
  \E g \in ScaleGeoms, d \in ScaleDistances, digits \in 0..MAX_PRECISION_DIGITS :
    CallScaleFactor(g, d, digits)

SpecScale == InitScale /\ [][NextScale]_vars

(***************************************************************************)
(* Reading the last call.                                                  *)
(***************************************************************************)
Done == last.call = "getResultGeometry"
Failed == last.exc.class # "none"
Returned == Done /\ ~Failed
NumAttempts == Len(last.attempts)
LadderDigits == 0..MAX_PRECISION_DIGITS

\* The global names bufParams, argGeom and distance hold what the request's
\* object and argument hold, so that the functions' bare names read the
\* request's own values.
NamesMatchRequest ==
  /\ scope.bufParams = Declared(last.params)
  /\ scope.argGeom = Declared(last.geom)
  /\ scope.distance = Declared(last.distance)

\* the k-th builder call of the request was the fast path / was made for digit d
IsFastPath(k) == last.attempts[k].via = "bufferOriginalPrecision"
IsFixed(k) == last.attempts[k].via = "bufferFixedPrecision"
FailedAt(k) == last.attempts[k].outcome # "ok"
FastPathFailedRobustly ==
  /\ NumAttempts >= 1
  /\ IsFastPath(1)
  /\ last.attempts[1].outcome = "RobustnessFailure"

\* the builder calls made by bufferFixedPrecision, and the calls made for digit d
FixedCalls == {k \in 1..NumAttempts : IsFixed(k)}
CallsAt(d) == {k \in FixedCalls : last.attempts[k].digits = d}

\* what the builder does for the request's geometry and distance on the grid of digit d
OutcomeAtDigit(d) ==
  BuilderOutcome(
    setWorkingPrecisionModel(NewBufferBuilder(last.params),
      FixedPM(precisionScaleFactor(last.geom, last.distance, Number(d)))),
    last.plan)

(***************************************************************************)
(* C1, C2, C3, C5, C8 and C9 are stated for the requests made where        *)
(* NamesMatchRequest holds: there every builder call is made for the       *)
(* request's own geometry, distance and parameters, so what the statements *)
(* say about the attempts is not affected by which names the host declares.*)
(***************************************************************************)

\* C1: a request for a Floating geometry fails only after the fast path and
\* all 13 ladder attempts (digits 12..0) have failed; a robustness failure of
\* the fast path is not raised but starts the ladder at digit 12, and one at
\* a digit d > 0 is followed by an attempt at d - 1.
C1_FailsOnlyAfterWholeLadder ==
  (Done /\ NamesMatchRequest /\ last.geom.pm.type = "FLOATING") =>
    /\ Failed =>
         /\ NumAttempts = MAX_PRECISION_DIGITS + 2
         /\ \A k \in 1..NumAttempts : FailedAt(k)
    /\ FastPathFailedRobustly =>
         /\ last.exc # BuilderError("RobustnessFailure", 1)
         /\ NumAttempts >= 2
         /\ IsFixed(2) /\ last.attempts[2].digits = MAX_PRECISION_DIGITS
    /\ \A k \in FixedCalls :
         (last.attempts[k].outcome = "RobustnessFailure" /\ last.attempts[k].digits > 0) =>
           /\ k < NumAttempts
           /\ IsFixed(k + 1) /\ last.attempts[k + 1].digits = last.attempts[k].digits - 1

\* C2: once the ladder attempt at a digit d succeeds the ladder stops: no
\* attempt at a smaller digit is made, no failure is raised, and the request
\* returns the geometry built at d, the largest digit at which the builder
\* succeeds.
C2_LadderStopsAtFirstSuccess ==
  (Done /\ NamesMatchRequest /\ last.geom.pm.type = "FLOATING") =>
    /\ \A k \in FixedCalls :
         ~FailedAt(k) => (k = NumAttempts /\ ~Failed /\ last.ret.attempt = k)
    /\ \A d \in LadderDigits :
         ( /\ FastPathFailedRobustly
           /\ OutcomeAtDigit(d) = "ok"
           /\ \A e \in LadderDigits : e > d => OutcomeAtDigit(e) = "RobustnessFailure" ) =>
           /\ ~Failed
           /\ ~last.ret.null
           /\ last.ret.attempt \in CallsAt(d)
           /\ \A e \in LadderDigits : e < d => CallsAt(e) = {}

\* C3: when the fast path and all 13 ladder attempts fail with a robustness
\* failure, the request fails with BufferComputationFailed, whose cause is the
\* failure of the attempt at digit 0.
C3_ExhaustionReportsDigitZero ==
  ( /\ Done /\ NamesMatchRequest /\ last.geom.pm.type = "FLOATING"
    /\ FastPathFailedRobustly
    /\ \A d \in LadderDigits : OutcomeAtDigit(d) = "RobustnessFailure" ) =>
    /\ last.exc.class = "BufferComputationFailed"
    /\ last.exc.attempt \in CallsAt(0)

\* C4: when the fast-path attempt succeeds the request returns its geometry
\* and the builder has been called exactly once.
C4_FastPathSuccessIsFinal ==
  (Done /\ NumAttempts >= 1 /\ IsFastPath(1) /\ ~FailedAt(1)) =>
    /\ NumAttempts = 1
    /\ ~Failed
    /\ ~last.ret.null /\ last.ret.attempt = 1

C4_Witness ==
  /\ Done /\ NamesMatchRequest /\ NumAttempts = 1 /\ IsFastPath(1) /\ ~FailedAt(1)
  /\ ~Failed /\ last.ret.attempt = 1

\* C5: for a geometry with a fixed precision model whose fast-path attempt
\* fails, exactly one more builder call is made, by bufferFixedPrecision with
\* the geometry's own model and outside the ladder; when it fails the request
\* fails; the builder is called at most twice.
C5_FixedInputGetsOneFallback ==
  (Done /\ NamesMatchRequest /\ last.geom.pm.type = "FIXED") =>
    /\ NumAttempts <= 2
    /\ \A d \in LadderDigits : CallsAt(d) = {}
    /\ (NumAttempts >= 1 /\ IsFastPath(1) /\ FailedAt(1)) =>
         /\ NumAttempts = 2
         /\ IsFixed(2) /\ last.attempts[2].workingPM = last.geom.pm
         /\ FailedAt(2) => Failed

C7_ResultOrFailure ==
  Done => (Failed \/ ~last.ret.null)

C7_Witness ==
  /\ Returned /\ NamesMatchRequest /\ ~last.ret.null
  /\ NumAttempts >= 1

\* C8: a request in which the builder raised a robustness failure raises, if
\* anything, BufferComputationFailed or InvalidArgument, never the robustness
\* failure itself.
C8_RobustnessFailureContained ==
  ( /\ Done /\ NamesMatchRequest /\ Failed
    /\ \E k \in 1..NumAttempts : last.attempts[k].outcome = "RobustnessFailure" ) =>
    /\ last.exc.class \in {"BufferComputationFailed", "InvalidArgument"}
    /\ last.exc.class # "RobustnessFailure"

\* the digits of the builder calls made by the ladder, in the order made
RECURSIVE DigitsFrom(_)
DigitsFrom(k) ==
  IF k > NumAttempts THEN <<>>
  ELSE IF IsFixed(k) /\ (last.geom.pm.type = "FLOATING")
    THEN <<last.attempts[k].digits>> \o DigitsFrom(k + 1)
    ELSE DigitsFrom(k + 1)
AttemptedDigits == DigitsFrom(1)

\* C9: the ladder starts at MAX_PRECISION_DIGITS = 12 and goes down to 0: the
\* digits attempted in a request are 12, 11, ... in this order, each at most
\* once and none outside 0..12.
C9_DigitsDescendFromTwelve ==
  (Done /\ NamesMatchRequest) =>
    /\ \A j \in 1..Len(AttemptedDigits) : AttemptedDigits[j] = MAX_PRECISION_DIGITS + 1 - j
    /\ Len(AttemptedDigits) <= MAX_PRECISION_DIGITS + 1
    /\ (last.geom.pm.type = "FLOATING" /\ FastPathFailedRobustly) =>
         (Len(AttemptedDigits) >= 1 /\ AttemptedDigits[1] = MAX_PRECISION_DIGITS)

\* C10: requests share no state: the result geometry is unset when a request
\* starts, and what the request returns or raises comes from a builder call of
\* that request, made with the request's own geometry and distance.
C10_RequestsShareNothing ==
  Done =>
    /\ last.before.declared => last.before.value.null
    /\ ~Failed =>
         /\ last.ret.attempt \in 1..NumAttempts
         /\ last.ret.geom = last.geom.id
         /\ last.ret.distance = last.distance
    /\ (Failed /\ NumAttempts >= 1) => last.exc.attempt \in 1..NumAttempts
    /\ \A k \in 1..NumAttempts :
         /\ last.attempts[k].geom = last.geom.id
         /\ last.attempts[k].distance = last.distance

(***************************************************************************)
(* C11 and C18 are about the builder calls of bufferFixedPrecision, which  *)
(* no call of getResultGeometry reaches; they are checked on the calls of  *)
(* bufferFixedPrecision and bufferReducedPrecision themselves              *)
(* (SpecMethods).                                                          *)
(***************************************************************************)
MethodCalled == last.call \in {"bufferFixedPrecision", "bufferReducedPrecision"}

\* C11: in every builder call made by bufferFixedPrecision the scale handed to
\* the noder is the scale of the working precision model set on the builder.
C11_NoderScaleIsWorkingScale ==
  \A k \in FixedCalls :
    /\ last.attempts[k].workingPM.type = "FIXED"
    /\ last.attempts[k].noder = last.attempts[k].workingPM.scale

C11_Witness ==
  /\ last.call = "bufferReducedPrecision" /\ last.digits = MAX_PRECISION_DIGITS
  /\ NumAttempts = 1 /\ IsFixed(1)
  /\ last.attempts[1].noder.kind = "finite"
  /\ last.attempts[1].noder = last.attempts[1].workingPM.scale

\* C12: every builder call of a request is made with the geometry and the
\* parameters of the BufferOp object (the caller's, or the default ones when
\* the caller gave none) and with the distance of the request.
C12_AttemptsGetTheRequest ==
  Done =>
    \A k \in 1..NumAttempts :
      /\ last.attempts[k].geom = last.geom.id
      /\ last.attempts[k].distance = last.distance
      /\ last.attempts[k].params = last.params

(***************************************************************************)
(* C13 and C14 are about precisionScaleFactor alone (SpecScale).           *)
(***************************************************************************)
ScaleCalled == last.call = "precisionScaleFactor"

\* the effective size of the call: the envelope's larger side plus twice the
\* distance when that is positive
EffectiveSize ==
  (IF last.geom.envHeight >= last.geom.envWidth
     THEN last.geom.envHeight ELSE last.geom.envWidth)
  + (IF last.distance > 0 THEN 2 * last.distance ELSE 0)

\* C13: for one geometry and distance of positive effective size, a call of
\* precisionScaleFactor with more digits gives a larger scale factor, and one
\* digit more gives ten times the scale factor.
C13_ScaleGrowsWithDigits ==
  (ScaleCalled /\ last.prev.digits >= 0 /\ EffectiveSize > 0) =>
    /\ last.prev.digits < last.digits => ScaleLess(last.prev.scale, last.scale)
    /\ last.prev.digits > last.digits => ScaleLess(last.scale, last.prev.scale)
    /\ last.prev.digits + 1 = last.digits =>
         /\ last.scale.kind = "finite" /\ last.prev.scale.kind = "finite"
         /\ last.scale.p = last.prev.scale.p + 1
         /\ last.scale.x = last.prev.scale.x

C13_Witness ==
  /\ ScaleCalled /\ EffectiveSize > 0
  /\ last.prev.digits = 0 /\ last.digits = MAX_PRECISION_DIGITS
  /\ ScaleLess(last.prev.scale, last.scale)

\* C14: for an effective size of zero precisionScaleFactor returns a finite
\* positive scale factor, whatever the digits in 0..12.
C14_ZeroSizeGivesFiniteScale ==
  (ScaleCalled /\ EffectiveSize = 0) => last.scale.kind = "finite"

C16_BoundedSequentialAttempts ==
  Done =>
    /\ last.geom.pm.type = "FLOATING" => NumAttempts <= MAX_PRECISION_DIGITS + 2
    /\ last.geom.pm.type = "FIXED" => NumAttempts <= 2
    /\ \A k \in 1..NumAttempts :
         /\ k < NumAttempts => FailedAt(k)
         /\ last.attempts[k].outcome \in Outcomes

C16_Witness ==
  /\ Done /\ NamesMatchRequest /\ scope.aliases
  /\ NumAttempts = 1 /\ last.geom.pm.type = "FLOATING"

\* C17: a request for a geometry with a fixed precision model whose fast path
\* failed robustly makes one builder call through bufferFixedPrecision, with
\* the geometry's own precision model as the working model and its scale as
\* the noder's, and with no digit, hence no computed scale factor, behind it.
C17_FallbackUsesOwnModel ==
  (Done /\ NamesMatchRequest /\ scope.aliases
     /\ last.geom.pm.type = "FIXED" /\ FastPathFailedRobustly) =>
    /\ Cardinality(FixedCalls) = 1
    /\ \A k \in FixedCalls :
         /\ last.attempts[k].digits = -1
         /\ last.attempts[k].workingPM = last.geom.pm
         /\ last.attempts[k].noder = last.geom.pm.scale

\* C18: in a request for a geometry in floating precision whose fast path
\* failed robustly, the builder call for digit d has the fixed working model
\* of scale precisionScaleFactor(geometry, distance, d), and of two ladder
\* calls the later one has the strictly smaller scale.
C18_LadderScalesFromDigits ==
  (Done /\ NamesMatchRequest /\ scope.aliases
     /\ last.geom.pm.type = "FLOATING" /\ FastPathFailedRobustly) =>
    /\ CallsAt(MAX_PRECISION_DIGITS) # {}
    /\ \A k \in FixedCalls :
         last.attempts[k].workingPM =
           FixedPM(precisionScaleFactor(last.geom, last.distance,
                                        Number(last.attempts[k].digits)))
    /\ \A j, k \in FixedCalls :
         j < k => ScaleLess(last.attempts[k].workingPM.scale,
                            last.attempts[j].workingPM.scale)

\* C19: a call of the static bufferOp in any of its four forms computes the
\* buffer of the geometry at the distance given, with the caller's
\* BufferParameters when the form passes them and default ones otherwise.
BufferOpCalled == last.call = "bufferOp"

C19_StaticFormsUseCallersOptions ==
  (BufferOpCalled /\ scope.aliases) =>
    /\ last.exc.class \notin {"ReferenceError", "TypeError"}
    /\ NumAttempts >= 1
    /\ \A k \in 1..NumAttempts :
         /\ last.attempts[k].geom = last.geom.id
         /\ last.attempts[k].distance = last.distance
         /\ last.form = "params" => last.attempts[k].params = last.params
         /\ last.form = "distance" => last.attempts[k].params = DefaultParams

====
